---- MODULE Spec2Model ----
(***************************************************************************)
(* A model of azure-upload.py: the page-blob uploader.                     *)
(*                                                                         *)
(* One producer (the main thread running the loop over args.files and      *)
(* page_upload) and args.threads daemon workers (request_handler) share a  *)
(* bounded Queue.Queue and the global flag `done`.                         *)
(*                                                                         *)
(* Granularity.  Every access to the shared state (queue.put, queue.get,   *)
(* queue.task_done, queue.join, a read or a write of `done`) and every     *)
(* remote call (put_blob, put_page) is a step of its own or ends a step;   *)
(* the thread-local statements between two such accesses are folded into   *)
(* the step that follows them.                                             *)
(*                                                                         *)
(* Scaling.  PAGE_SIZE is the source's 512.  MAX_SIZE is 4 MiB = 8192      *)
(* pages in the source; here it is MaxRunPages pages, so that a run can    *)
(* reach MAX_SIZE inside a file of a few pages.  The chunker only compares *)
(* chunk_size with MAX_SIZE, so the ratio is the one thing scaled.         *)
(*                                                                         *)
(* A page's content is abstracted to one number: 0 for the all-zero page,  *)
(* and the page's 1-based index in the file for any other content, so that *)
(* a payload assembled out of order or with left-over pages is visible.    *)
(***************************************************************************)
EXTENDS Integers, Sequences, FiniteSets

\* ---------------------------------------------------------------- bounds
MaxPages == 5
MaxRunPages == 2
MaxThreads == 2
MaxFiles == 2

\* ------------------------------------------------------ program constants
PAGE_SIZE == 512
MAX_SIZE == MaxRunPages * PAGE_SIZE
MaxAttempts == 5
QueueFactor == 2
Container == "container"

VARIABLES
    \* the command line
    nfiles,         \* len(args.files)
    threads,        \* args.threads
    \* shared between the threads
    queue,          \* Queue.Queue: the tasks put and not yet got
    unfinished,     \* Queue.unfinished_tasks: puts minus task_done calls
    done,           \* the global flag
    \* the main thread
    pcMain,         \* where the main thread is
    fileNo,         \* index in args.files of the file being processed
    filesize,       \* page_upload's locals
    offset,
    chunk_type,
    chunk_start,
    chunk_size,
    chunk_data,
    uploaded,
    ret,            \* the tuple page_upload returned, <<>> before it returns
    \* the workers
    pc,             \* where each worker is
    cur,            \* the task a worker dequeued, <<>> when it holds none
    attempts,       \* request_handler's local
    \* the environment and what happened so far to the current file
    pages,          \* the pages read from the current file so far
    blob,           \* put_blob for the current file: "none", "created", "failed"
    runs,           \* the page_write calls with a kind other than None
    enq,            \* the tasks put on the queue
    called,         \* the tasks put_page was called for at least once
    written,        \* the tasks put_page succeeded for
    acked,          \* the tasks task_done was called for
    failed          \* the tasks that failed MaxAttempts times, with the count

vars == <<nfiles, threads, queue, unfinished, done, pcMain, fileNo, filesize,
          offset, chunk_type, chunk_start, chunk_size, chunk_data, uploaded,
          ret, pc, cur, attempts, pages, blob, runs, enq, called, written,
          acked, failed>>

mainLocals == <<filesize, offset, chunk_type, chunk_start, chunk_size,
                chunk_data, uploaded>>
workerVars == <<pc, cur, attempts>>
remoteVars == <<called, written, acked, failed>>

Workers == 1..threads

\* The queue made without a maxsize: Queue.Queue().
QueueCap_NoMaxsize == threads * QueueFactor + MaxPages + 1

\* Queue.Queue(args.threads * 2)
QueueCap == threads * QueueFactor

\* The sizes a file on the command line may have: page-aligned ones of up to
\* MaxPages pages, and some that are not a multiple of PAGE_SIZE.
FileSizes == {n * PAGE_SIZE : n \in 0..MaxPages}
             \cup {n * PAGE_SIZE + r : n \in 0..1, r \in {1, PAGE_SIZE - 1}}

\* page_upload without the test of the size.
NotPageMultiple_NoTest(size) == FALSE

\* if filesize % PAGE_SIZE:
NotPageMultiple(size) == size % PAGE_SIZE # 0

\* f.read(PAGE_SIZE) at the page with 1-based index i: all zeros, or not.
PageValues(i) == {0, i}

\* data == bytearray(PAGE_SIZE)
Classify(data) == IF data = 0 THEN "clear" ELSE "update"

\* 'bytes=%lu-%lu' % (offset, end)
RangeStr(first, last) == <<"bytes", first, last>>

\* page_write without its test of the kind: every flush puts a task.
page_write_NoKindTest(file, data, off, size, type) ==
    [ret |-> size,
     put |-> <<[cntnr |-> Container, file |-> file, data |-> data,
                range |-> RangeStr(off, off + size - 1), type |-> type]>>]

\* page_write that also sends the runs of zero pages.
page_write_SendsClear(file, data, off, size, type) ==
    IF type = "none"
    THEN [ret |-> 0, put |-> <<>>]
    ELSE [ret |-> size,
          put |-> <<[cntnr |-> Container, file |-> file, data |-> data,
                     range |-> RangeStr(off, off + size - 1),
                     type |-> type]>>]

\* page_write that returns the size of a run of zero pages it does not send.
page_write_CountsClear(file, data, off, size, type) ==
    IF type # "update"
    THEN [ret |-> IF type = "clear" THEN size ELSE 0, put |-> <<>>]
    ELSE [ret |-> size,
          put |-> <<[cntnr |-> Container, file |-> file, data |-> data,
                     range |-> RangeStr(off, off + size - 1),
                     type |-> type]>>]

\* page_write: the value returned, and the tuples put on the queue (none or
\* one).
page_write(file, data, off, size, type) ==
    IF type # "update"
    THEN [ret |-> 0, put |-> <<>>]
    ELSE [ret |-> size,
          put |-> <<[cntnr |-> Container, file |-> file, data |-> data,
                     range |-> RangeStr(off, off + size - 1),
                     type |-> type]>>]

\* A call uploaded += page_write(blobsvc, container, file, data, start, size,
\* type) by page_upload.  queue.put blocks while the queue is full, so the
\* step that contains the call happens only when the put can complete.
Flush(data, start, size, type) ==
    LET r == page_write(fileNo, data, start, size, type) IN
    /\ Len(queue) + Len(r.put) <= QueueCap
    /\ queue' = queue \o r.put
    /\ unfinished' = unfinished + Len(r.put)
    /\ uploaded' = uploaded + r.ret
    /\ enq' = enq \o r.put
    /\ runs' = IF type = "none" THEN runs
               ELSE Append(runs, [offset |-> start, size |-> size,
                                  kind |-> type])

\* A flush before every page, whatever its kind.
KindChanged_Always(ctype, type) == TRUE

\* if chunk_type != type:
KindChanged(ctype, type) == ctype # type

\* chunk_start = offset, for the run that starts with the page at off
NewRunStart(off) == off

\* chunk_size = 0, for the run that starts
NewRunSize == 0

\* The payload of the run just flushed is carried into the next run.
NewRunData_Kept == chunk_data

\* chunk_data = b'', for the run that starts
NewRunData == <<>>

\* if chunk_size == MAX_SIZE:
RunFull(size) == size = MAX_SIZE

\* The flush of a full run that leaves chunk_type as it is.
TypeAfterFull_Kept == chunk_type

\* chunk_type = None, after the flush of a full run
TypeAfterFull == "none"

\* page_upload's locals outside a call.
ResetLocals ==
    /\ filesize' = 0 /\ offset' = 0 /\ chunk_type' = "none"
    /\ chunk_start' = 0 /\ chunk_size' = 0 /\ chunk_data' = <<>>
    /\ uploaded' = 0

Init ==
    /\ nfiles \in 1..MaxFiles
    /\ threads \in 1..MaxThreads
    /\ queue = <<>> /\ unfinished = 0 /\ done = FALSE
    /\ pcMain = "for" /\ fileNo = 1
    /\ filesize = 0 /\ offset = 0 /\ chunk_type = "none" /\ chunk_start = 0
    /\ chunk_size = 0 /\ chunk_data = <<>> /\ uploaded = 0 /\ ret = <<>>
    /\ pc = [w \in Workers |-> "loop"]
    /\ cur = [w \in Workers |-> <<>>]
    /\ attempts = [w \in Workers |-> 0]
    /\ pages = <<>> /\ blob = "none" /\ runs = <<>> /\ enq = <<>>
    /\ called = {} /\ written = {} /\ acked = {} /\ failed = {}

\* ------------------------------------------------------- the main thread

\* for file in args.files: page_upload(bs, args.container, file), up to the
\* early returns: open fails.
OpenFails ==
    /\ pcMain = "for" /\ fileNo <= nfiles
    /\ ret' = <<FALSE, 0, 0>>
    /\ pcMain' = "ret"
    /\ UNCHANGED <<nfiles, threads, queue, unfinished, done, fileNo,
                   mainLocals, workerVars, pages, blob, runs, enq,
                   remoteVars>>

\* The file opens and its size is not a multiple of PAGE_SIZE.
Misaligned ==
    /\ pcMain = "for" /\ fileNo <= nfiles
    /\ \E size \in FileSizes :
          /\ NotPageMultiple(size)
          /\ ret' = <<FALSE, size, 0>>
    /\ pcMain' = "ret"
    /\ UNCHANGED <<nfiles, threads, queue, unfinished, done, fileNo,
                   mainLocals, workerVars, pages, blob, runs, enq,
                   remoteVars>>

\* The file opens and its size passes the test: on to put_blob.
Open ==
    /\ pcMain = "for" /\ fileNo <= nfiles
    /\ \E size \in FileSizes :
          /\ ~NotPageMultiple(size)
          /\ filesize' = size
    /\ pcMain' = "put_blob"
    /\ UNCHANGED <<nfiles, threads, queue, unfinished, done, fileNo, offset,
                   chunk_type, chunk_start, chunk_size, chunk_data, uploaded,
                   ret, workerVars, pages, blob, runs, enq, remoteVars>>

\* blobsvc.put_blob(...) returns, and the locals of the scan are set.
PutBlob ==
    /\ pcMain = "put_blob"
    /\ blob' = "created"
    /\ offset' = 0 /\ chunk_type' = "none" /\ chunk_start' = 0
    /\ chunk_size' = 0 /\ chunk_data' = <<>> /\ uploaded' = 0
    /\ pcMain' = "scan"
    /\ UNCHANGED <<nfiles, threads, queue, unfinished, done, fileNo, filesize,
                   ret, workerVars, pages, runs, enq, remoteVars>>

\* blobsvc.put_blob(...) raises: nothing catches it, in page_upload or in the
\* loop over args.files, and the main thread ends with the exception; the
\* workers are daemon threads and end with it.
PutBlobRaises ==
    /\ pcMain = "put_blob"
    /\ blob' = "failed"
    /\ pcMain' = "crashed"
    /\ UNCHANGED <<nfiles, threads, queue, unfinished, done, fileNo,
                   mainLocals, ret, workerVars, pages, runs, enq, remoteVars>>

\* while offset < filesize: read the page, classify it, and flush the run
\* when the kind changes.
Scan ==
    /\ pcMain = "scan" /\ offset < filesize
    /\ \E data \in PageValues(offset \div PAGE_SIZE + 1) :
          LET type == Classify(data) IN
          /\ pages' = Append(pages, data)
          /\ IF KindChanged(chunk_type, type)
             THEN /\ Flush(chunk_data, chunk_start, chunk_size, chunk_type)
                  /\ chunk_type' = type
                  /\ chunk_start' = NewRunStart(offset)
                  /\ chunk_size' = NewRunSize
                  /\ chunk_data' = NewRunData
             ELSE UNCHANGED <<queue, unfinished, uploaded, enq, runs,
                              chunk_type, chunk_start, chunk_size,
                              chunk_data>>
    /\ pcMain' = "append"
    /\ UNCHANGED <<nfiles, threads, done, fileNo, filesize, offset, ret,
                   workerVars, blob, remoteVars>>

\* The rest of the loop body: the page joins the run, which is flushed when
\* it has reached MAX_SIZE.
AppendPage ==
    /\ pcMain = "append"
    /\ LET data == pages[Len(pages)]
           type == Classify(data)
           size == chunk_size + PAGE_SIZE
           cdata == IF type = "update" THEN Append(chunk_data, data)
                    ELSE chunk_data
       IN IF RunFull(size)
          THEN /\ Flush(cdata, chunk_start, size, chunk_type)
               /\ chunk_type' = TypeAfterFull
               /\ chunk_size' = size
               /\ chunk_data' = cdata
          ELSE /\ chunk_size' = size
               /\ chunk_data' = cdata
               /\ UNCHANGED <<queue, unfinished, uploaded, enq, runs,
                              chunk_type>>
    /\ offset' = offset + PAGE_SIZE
    /\ pcMain' = "scan"
    /\ UNCHANGED <<nfiles, threads, done, fileNo, filesize, chunk_start, ret,
                   workerVars, pages, blob, remoteVars>>

\* After the loop: the last run is flushed.
FinalFlush ==
    /\ pcMain = "scan" /\ ~(offset < filesize)
    /\ Flush(chunk_data, chunk_start, chunk_size, chunk_type)
    /\ pcMain' = "join"
    /\ UNCHANGED <<nfiles, threads, done, fileNo, filesize, offset,
                   chunk_type, chunk_start, chunk_size, chunk_data, ret,
                   workerVars, pages, blob, remoteVars>>

\* page_upload without the wait for the tasks it has put.
JoinReturns_NoWait == TRUE

\* queue.join() returns once unfinished_tasks is 0.
JoinReturns == unfinished = 0

\* queue.join() returns; return (True, filesize, uploaded).
Join ==
    /\ pcMain = "join"
    /\ JoinReturns
    /\ ret' = <<TRUE, filesize, uploaded>>
    /\ pcMain' = "ret"
    /\ UNCHANGED <<nfiles, threads, queue, unfinished, done, fileNo,
                   mainLocals, workerVars, pages, blob, runs, enq,
                   remoteVars>>

\* (status, filesize, uploaded) = page_upload(...), and the next iteration of
\* the loop over args.files.
NextFile ==
    /\ pcMain = "ret"
    /\ fileNo' = fileNo + 1
    /\ pcMain' = "for"
    /\ ret' = <<>>
    /\ ResetLocals
    /\ pages' = <<>> /\ blob' = "none" /\ runs' = <<>> /\ enq' = <<>>
    /\ called' = {} /\ written' = {} /\ acked' = {} /\ failed' = {}
    /\ UNCHANGED <<nfiles, threads, queue, unfinished, done, workerVars>>

\* After the loop over args.files: done = True, and the process ends.
MainExit ==
    /\ pcMain = "for" /\ fileNo > nfiles
    /\ done' = TRUE
    /\ pcMain' = "exit"
    /\ UNCHANGED <<nfiles, threads, queue, unfinished, fileNo, mainLocals,
                   ret, workerVars, pages, blob, runs, enq, remoteVars>>

\* The process runs as long as its main thread does: the workers are daemon
\* threads.
Alive == pcMain \notin {"exit", "crashed"}

\* ------------------------------------------------------------ the workers

\* while not done:
WorkerLoop(w) ==
    /\ w \in Workers /\ Alive /\ pc[w] = "loop"
    /\ pc' = [pc EXCEPT ![w] = IF done THEN "exit" ELSE "get"]
    /\ UNCHANGED <<nfiles, threads, queue, unfinished, done, pcMain, fileNo,
                   mainLocals, ret, cur, attempts, pages, blob, runs, enq,
                   remoteVars>>

\* A get that leaves the task on the queue.
RestAfterGet_Peek(q) == q

\* What queue.get leaves on the queue.
RestAfterGet(q) == Tail(q)

\* queue.get(timeout=2) returns the oldest task; attempts = 0.
WorkerGet(w) ==
    /\ w \in Workers /\ Alive /\ pc[w] = "get"
    /\ queue # <<>>
    /\ cur' = [cur EXCEPT ![w] = <<Head(queue)>>]
    /\ queue' = RestAfterGet(queue)
    /\ attempts' = [attempts EXCEPT ![w] = 0]
    /\ pc' = [pc EXCEPT ![w] = "write"]
    /\ UNCHANGED <<nfiles, threads, unfinished, done, pcMain, fileNo,
                   mainLocals, ret, pages, blob, runs, enq, remoteVars>>

\* queue.get(timeout=2) raises Queue.Empty: the queue stayed empty for the
\* two seconds; continue.
WorkerEmpty(w) ==
    /\ w \in Workers /\ Alive /\ pc[w] = "get"
    /\ queue = <<>>
    /\ pc' = [pc EXCEPT ![w] = "loop"]
    /\ UNCHANGED <<nfiles, threads, queue, unfinished, done, pcMain, fileNo,
                   mainLocals, ret, cur, attempts, pages, blob, runs, enq,
                   remoteVars>>

\* The arguments of bs.put_page(cntnr, file, data, x_ms_range=range,
\* x_ms_page_write=type) at attempt n for the dequeued tuple t.
PutPageArgs(t, n) == t

\* The loop without a second attempt.
LoopAgain_NoRetry(success, n) == FALSE

\* The retry loop with its bound off by one: a sixth attempt.
LoopAgain_OneMore(success, n) == ~success /\ n <= MaxAttempts

\* while not success and attempts < 5
LoopAgain(success, n) == ~success /\ n < MaxAttempts

\* task_done called for a task whatever its outcome.
AcksTask_Always(success, n) == TRUE

\* task_done under the test of attempts > 1 instead of after it.
AcksTask_FirstTryOnly(success, n) == success /\ n = 1

\* if success: (if attempts > 1: logging.warning(...)) queue.task_done()
AcksTask(success, n) == success

\* else: done = True
SetsDone(success) == ~success

\* One attempt of the retry loop, and, when the loop ends with it, the
\* statements after the loop.
WorkerAttempt(w) ==
    /\ w \in Workers /\ Alive /\ pc[w] = "write"
    /\ \E success \in BOOLEAN :
          LET n == attempts[w] + 1
              t == cur[w][1]
          IN /\ called' = called \cup {PutPageArgs(t, n)}
             /\ written' = IF success THEN written \cup {PutPageArgs(t, n)}
                            ELSE written
             /\ IF LoopAgain(success, n)
                THEN /\ attempts' = [attempts EXCEPT ![w] = n]
                     /\ UNCHANGED <<pc, cur, unfinished, acked, done, failed>>
                ELSE /\ attempts' = [attempts EXCEPT ![w] = 0]
                     /\ cur' = [cur EXCEPT ![w] = <<>>]
                     /\ pc' = [pc EXCEPT ![w] = "loop"]
                     /\ IF AcksTask(success, n)
                        THEN /\ unfinished' = unfinished - 1
                             /\ acked' = acked \cup {t}
                        ELSE UNCHANGED <<unfinished, acked>>
                     /\ done' = IF SetsDone(success) THEN TRUE ELSE done
                     /\ failed' = IF success THEN failed
                                   ELSE failed \cup
                                        {[task |-> t, attempts |-> n]}
    /\ UNCHANGED <<nfiles, threads, queue, pcMain, fileNo, mainLocals, ret,
                   pages, blob, runs, enq>>

\* ------------------------------------------------------ the specification

Main ==
    \/ OpenFails \/ Misaligned \/ Open \/ PutBlob \/ PutBlobRaises
    \/ Scan \/ AppendPage \/ FinalFlush \/ Join \/ NextFile \/ MainExit

Worker(w) ==
    \/ WorkerLoop(w) \/ WorkerGet(w) \/ WorkerEmpty(w) \/ WorkerAttempt(w)

Next == Main \/ \E w \in Workers : Worker(w)

Spec == Init /\ [][Next]_vars

\* The threads are scheduled by the operating system: a thread that can take
\* a step is not held back for ever.  The behaviours checked for what
\* eventually happens are those of a command line with one file.
OneFileInit == Init /\ nfiles = 1

FairSpec ==
    /\ OneFileInit /\ [][Next]_vars
    /\ WF_vars(Main)
    /\ \A w \in 1..MaxThreads : WF_vars(Worker(w))

\* ------------------------------------------------------------- the claims

\* What a task on the queue says about its byte range.
TaskFirst(t) == t.range[2]
TaskLast(t) == t.range[3]
TaskLen(t) == TaskLast(t) - TaskFirst(t) + 1
RunEnd(r) == r.offset + r.size

\* page_upload is past put_blob for the current file
Returned == pcMain = "ret"
Succeeded == Returned /\ ret[1]
InUpload == pcMain \in {"scan", "append", "join"} \/ Succeeded
\* page_upload is past its last page_write for the current file
Flushed == pcMain = "join" \/ Succeeded

\* C1: the runs flushed with a kind other than None tile [0, filesize): the
\* first starts at 0, each starts where the one before it ended, none is
\* empty (so the offsets ascend strictly), and once the last flush is made
\* the last run of a file of positive size ends at filesize.
C1_RunsTile ==
    InUpload =>
        /\ \A i \in 1..Len(runs) :
              /\ runs[i].size > 0
              /\ runs[i].offset = IF i = 1 THEN 0 ELSE RunEnd(runs[i - 1])
        /\ (Flushed /\ filesize > 0) =>
              /\ runs # <<>>
              /\ RunEnd(runs[Len(runs)]) = filesize

\* C1's case: a file was chunked into at least three runs, with both kinds and
\* a run of MAX_SIZE among them.
C1_Witness ==
    /\ Flushed /\ Len(runs) >= 3
    /\ \E i, j, k \in 1..Len(runs) :
          /\ runs[i].kind = "clear" /\ runs[j].kind = "update"
          /\ runs[k].size = MAX_SIZE

\* C2: every task put on the queue has a length that is positive, a multiple
\* of PAGE_SIZE and at most MAX_SIZE, and a payload of that length.
C2_TaskLengths ==
    \A i \in 1..Len(enq) :
        /\ TaskLen(enq[i]) > 0
        /\ TaskLen(enq[i]) % PAGE_SIZE = 0
        /\ TaskLen(enq[i]) <= MAX_SIZE
        /\ Len(enq[i].data) * PAGE_SIZE <= MAX_SIZE

\* C2's case: a run was flushed at exactly MAX_SIZE, the flush that follows
\* it and the one at the end of the file were made, and a shorter task
\* followed.
C2_Witness ==
    /\ Flushed /\ Len(enq) >= 2
    /\ TaskLen(enq[1]) = MAX_SIZE
    /\ TaskLen(enq[2]) < MAX_SIZE
    /\ TaskFirst(enq[2]) = MAX_SIZE

\* The 1-based indices of the pages in a task's byte range.
TaskPages(t) == {i \in 1..(MaxPages + MaxRunPages + 2) :
                   /\ (i - 1) * PAGE_SIZE >= TaskFirst(t)
                   /\ i * PAGE_SIZE - 1 <= TaskLast(t)}
AllZero == \A i \in 1..Len(pages) : pages[i] = 0

\* C3: the byte range of every task put on the queue holds only pages
\* classified DATA (and holds a page at all); a file of zero pages only
\* returns with no task put, no put_page call and 0 uploaded bytes.
C3_NoZeroPageSent ==
    /\ \A i \in 1..Len(enq) :
          /\ TaskPages(enq[i]) # {}
          /\ \A p \in TaskPages(enq[i]) : p <= Len(pages) /\ pages[p] # 0
    /\ (Succeeded /\ AllZero) =>
          /\ enq = <<>> /\ called = {} /\ ret[3] = 0

\* C3's case: a file with zero pages and with other pages was chunked, and
\* tasks were put.
C3_Witness ==
    /\ Succeeded
    /\ Len(enq) >= 2
    /\ Cardinality({i \in 1..Len(pages) : pages[i] = 0}) >= 2

\* C3's other case: a file of zero pages only was uploaded.
C3_WitnessAllZero == Succeeded /\ AllZero /\ Len(pages) >= 3

\* A task permanently failed: the abort flag was set by a worker.
Aborted == failed # {}
Holding(w) == cur[w] # <<>>
EnqSet == {enq[i] : i \in 1..Len(enq)}

\* C4: once a write has permanently failed, the coordinator's wait is over
\* (whether it waits in queue.join or in queue.put, it can go on), and
\* page_upload does not report success for the file.
C4_AbortEndsWait ==
    Aborted =>
        /\ (pcMain \in {"scan", "append", "join"}) => ENABLED Main
        /\ Returned => ~ret[1]

\* C5: a worker writes a dequeued task at least once and at most MaxAttempts
\* times, each time with the arguments of the task it dequeued; it stops at
\* the first success; the abort flag is set by a worker exactly when a task
\* has failed MaxAttempts times.
C5_RetryBound ==
    /\ \A w \in Workers :
          /\ attempts[w] \in 0..(MaxAttempts - 1)
          /\ (pc[w] = "write") =>
                /\ Holding(w)
                /\ cur[w][1] \notin written
                /\ (attempts[w] >= 1) => cur[w][1] \in called
    /\ called \subseteq EnqSet
    /\ written \subseteq called
    /\ acked \subseteq written
    /\ \A f \in failed :
          /\ f.attempts = MaxAttempts
          /\ f.task \in called /\ f.task \notin written
    /\ Alive => (done <=> Aborted)

\* C5's case: one task was written and acknowledged, another one failed for
\* good, and a worker is retrying a third one.
C5_Witness ==
    /\ acked # {} /\ Aborted
    /\ \E w \in Workers : pc[w] = "write" /\ attempts[w] = MaxAttempts - 1

\* C6: when page_upload reports success, every task put for the file was
\* written and acknowledged, none failed, the abort flag is clear, and no
\* task is queued or held by a worker.
C6_SuccessMeansWritten ==
    Succeeded =>
        /\ EnqSet \subseteq written
        /\ EnqSet \subseteq acked
        /\ ~Aborted /\ ~done
        /\ queue = <<>> /\ unfinished = 0
        /\ \A w \in Workers : ~Holding(w)

\* C6's case: a file with three tasks was reported uploaded.
C6_Witness == Succeeded /\ Len(enq) >= 3

\* C7: once the abort flag is set, no worker dequeues a task.
C7_NoDequeueAfterAbort ==
    [][done => \A w \in Workers : Holding(w)' => Holding(w)]_vars

\* page_upload turned the current file down for its size.
Aligned(n) == n % PAGE_SIZE = 0
Rejected == Returned /\ ~Aligned(ret[2])

\* C8: a file whose size is not a multiple of PAGE_SIZE is never uploaded
\* (no blob, no scan); it is turned down with (False, filesize, 0), with
\* nothing done remotely, nothing on the queue and the abort flag clear, and
\* the loop over the files goes on with the next one.
C8_MisalignedRejected ==
    /\ [](/\ (blob # "none" \/ InUpload) => Aligned(filesize)
          /\ Rejected =>
                /\ ~ret[1] /\ ret[3] = 0
                /\ blob = "none" /\ enq = <<>> /\ queue = <<>>
                /\ unfinished = 0 /\ called = {} /\ ~done
                /\ ENABLED NextFile
          /\ (pcMain = "for" /\ fileNo <= nfiles) => ENABLED Open)
    /\ [][Rejected =>
            \/ Rejected'
            \/ pcMain' = "for" /\ fileNo' = fileNo + 1 /\ ~done']_vars

\* C8's case: a file of PAGE_SIZE + 1 bytes was turned down and another file
\* follows it.
C8_Witness == Rejected /\ ret[2] = PAGE_SIZE + 1 /\ fileNo < nfiles

\* C9: when put_blob fails for a file, nothing of the file is put, the abort
\* flag stays clear, page_upload reports the failure, and the loop over the
\* files goes on.
C9_InitFailureSkipsFile ==
    (blob = "failed") =>
        /\ enq = <<>> /\ ~done
        /\ Returned /\ ~ret[1]
        /\ ENABLED NextFile

\* C10: if no write fails MaxAttempts times, then under fair scheduling every
\* upload that has started its scan ends with page_upload returning
\* (True, filesize, uploaded), every task put written and acknowledged, the
\* queue empty and no task held by a worker.
C10_UploadTerminates ==
    [](~Aborted) =>
        ((pcMain = "scan") ~>
            (/\ Succeeded
             /\ ret = <<TRUE, Len(pages) * PAGE_SIZE, uploaded>>
             /\ EnqSet \subseteq written /\ EnqSet \subseteq acked
             /\ queue = <<>> /\ unfinished = 0
             /\ \A w \in Workers : ~Holding(w)))

\* C10's case: with one worker, a file that needs more tasks than the queue
\* holds was uploaded.
C10_Witness ==
    /\ Succeeded /\ threads = 1
    /\ Len(enq) > QueueCap

\* The payload bytes of a sequence of tasks.
RECURSIVE PayloadBytes(_)
PayloadBytes(ts) ==
    IF ts = <<>> THEN 0
    ELSE Len(Head(ts).data) * PAGE_SIZE + PayloadBytes(Tail(ts))

\* The tasks the workers hold, in the order of the workers.
RECURSIVE HeldUpTo(_)
HeldUpTo(n) == IF n = 0 THEN <<>> ELSE HeldUpTo(n - 1) \o cur[n]
Held == HeldUpTo(threads)

\* C11: the queue never holds more than 2 * args.threads tasks, nor more
\* than 2 * args.threads * MAX_SIZE bytes of payload, and a put completes
\* only in a state where the queue has a free slot.
C11_QueueBounded ==
    /\ [](/\ Len(queue) <= 2 * threads
          /\ PayloadBytes(queue) <= 2 * threads * MAX_SIZE)
    /\ [][Len(queue') > Len(queue) => Len(queue) < 2 * threads]_vars

\* C11's case: the queue is full and the producer, with a task to put, waits
\* for a worker to dequeue.
C11_Witness ==
    /\ Len(queue) = 2 * threads
    /\ pcMain \in {"scan", "append"} /\ ~ENABLED Main
    /\ ENABLED Next

\* C12 as claimed: the payload of the tasks queued or held by a worker never
\* exceeds capacity * MAX_SIZE.
C12_UnsentWithinCapacity ==
    PayloadBytes(queue) + PayloadBytes(Held) <= 2 * threads * MAX_SIZE

\* C12 as amended: the payload of the tasks queued or held by a worker never
\* exceeds (capacity + args.threads) * MAX_SIZE: at most capacity * MAX_SIZE
\* of it is queued, and each worker holds at most one task, of at most
\* MAX_SIZE.
C12_UnsentBounded ==
    /\ PayloadBytes(queue) <= 2 * threads * MAX_SIZE
    /\ Len(Held) <= threads
    /\ \A i \in 1..Len(Held) : PayloadBytes(<<Held[i]>>) <= MAX_SIZE
    /\ PayloadBytes(queue) + PayloadBytes(Held) <= 3 * threads * MAX_SIZE

\* C12's case: the queue is full and a worker holds a task besides, so that
\* more than capacity * MAX_SIZE bytes are unsent.
C12_Witness ==
    /\ Len(queue) = 2 * threads /\ Held # <<>>
    /\ PayloadBytes(queue) + PayloadBytes(Held) > 2 * threads * MAX_SIZE

\* Where a task put on the queue is: the number of places that hold it, out
\* of the slots of the queue, the workers, the acknowledged tasks and the
\* failed ones.
FailedTasks == {f.task : f \in failed}
Outcomes == acked \cup FailedTasks
Places(t) ==
    Cardinality({i \in 1..Len(queue) : queue[i] = t})
    + Cardinality({w \in Workers : cur[w] = <<t>>})
    + (IF t \in acked THEN 1 ELSE 0)
    + (IF t \in FailedTasks THEN 1 ELSE 0)

\* Every task put is queued, or held by one worker, or has one outcome, and
\* only one of these; task_done was called once per acknowledged task.
OneOwnerOneOutcome ==
    /\ Cardinality(EnqSet) = Len(enq)
    /\ \A t \in EnqSet : Places(t) = 1
    /\ \A i \in 1..Len(queue) : queue[i] \in EnqSet
    /\ \A w \in Workers : Holding(w) => cur[w][1] \in EnqSet
    /\ Outcomes \subseteq EnqSet
    /\ unfinished = Len(enq) - Cardinality(acked)

\* The upload of the current file is over: page_upload reported success, or
\* no thread can take a step any more.
Over == Succeeded \/ ~ENABLED Next

\* C13 as claimed: every task put has one owner at a time and one outcome,
\* and when the upload is over no task put is left without an outcome.
C13_ExactlyOneOutcome ==
    /\ OneOwnerOneOutcome
    /\ Over => EnqSet \subseteq Outcomes

\* C13 as amended: every task put has one owner at a time and at most one
\* outcome, and when the upload is over no task put is left without an
\* outcome unless a task has permanently failed: the tasks that are queued
\* when the workers leave get none.
C13_AtMostOneOutcome ==
    /\ OneOwnerOneOutcome
    /\ (Over /\ ~Aborted) => EnqSet \subseteq Outcomes

\* C13's case: a task was acknowledged, another failed for good, and a third
\* is left on the queue with all threads stopped.
C13_Witness ==
    /\ ~ENABLED Next /\ Aborted
    /\ acked # {} /\ queue # <<>>

\* The tasks queued or held by a worker.
InFlight == {queue[i] : i \in 1..Len(queue)}
            \cup {cur[w][1] : w \in {v \in Workers : Holding(v)}}

\* C14: the files are uploaded one after another: every task queued or held
\* by a worker belongs to the current file, and the step that takes the
\* next file, like the one that initialises a blob, starts with every task
\* put so far acknowledged, none queued and none held.
C14_FilesSequential ==
    /\ [](/\ \A t \in InFlight : t.file = fileNo
          /\ (pcMain \in {"for", "put_blob"}) =>
                (InFlight = {} /\ unfinished = 0))
    /\ [][(fileNo' # fileNo \/ (blob = "none" /\ blob' # "none")) =>
            /\ InFlight = {} /\ unfinished = 0
            /\ EnqSet \subseteq acked]_vars

\* C14's case: the tasks of a second file are queued and being written.
C14_Witness ==
    /\ fileNo = 2 /\ queue # <<>>
    /\ \E w \in Workers : Holding(w)

\* The byte lengths of a sequence of tasks, and of the runs of one kind.
RECURSIVE SumTaskLen(_)
SumTaskLen(ts) ==
    IF ts = <<>> THEN 0 ELSE TaskLen(Head(ts)) + SumTaskLen(Tail(ts))
RECURSIVE SumRunSize(_, _)
SumRunSize(rs, kind) ==
    IF rs = <<>> THEN 0
    ELSE (IF Head(rs).kind = kind THEN Head(rs).size ELSE 0)
         + SumRunSize(Tail(rs), kind)
NonZeroPages == Cardinality({i \in 1..Len(pages) : pages[i] # 0})

\* C15: the count of uploaded bytes is the sum of the lengths of the tasks
\* put for the file, to which the runs of zero pages add nothing; it never
\* exceeds filesize, and the count page_upload reports is PAGE_SIZE times
\* the number of non-zero pages of the file.
C15_UploadedCount ==
    /\ InUpload =>
          /\ uploaded = SumTaskLen(enq)
          /\ uploaded = SumRunSize(runs, "update")
          /\ uploaded <= filesize
    /\ Succeeded =>
          /\ ret[3] = SumTaskLen(enq)
          /\ ret[3] = PAGE_SIZE * NonZeroPages
          /\ ret[3] <= ret[2]

\* C15's case: a file of zero pages and other pages was uploaded in several
\* tasks, one of them longer than a page.
C15_Witness ==
    /\ Succeeded /\ Len(enq) >= 2
    /\ SumRunSize(runs, "clear") >= 2 * PAGE_SIZE
    /\ ret[3] >= 2 * PAGE_SIZE /\ ret[3] < ret[2]
    /\ \E i \in 1..Len(enq) : TaskLen(enq[i]) > PAGE_SIZE

\* The parts of C16.  The flag is never cleared.
AbortMonotone == [][done => done']_vars
\* Once it is set, a worker that has left its loop stays out and no file is
\* reported uploaded.
AbortIsFinal ==
    [][done => /\ \A w \in Workers : pc[w] = "exit" => pc'[w] = "exit"
               /\ ~Succeeded']_vars
\* Once it is set by a worker, every worker eventually leaves its loop.
AbortWorkersLeave == Aborted ~> (\A w \in Workers : pc[w] = "exit")
\* Once it is set, a worker finishes at most the task it holds: it takes no
\* other one.
AbortNoOtherTask ==
    [][done => \A w \in Workers : Holding(w)' => cur'[w] = cur[w]]_vars

\* C16: the abort flag is never cleared; after it is set every worker
\* eventually leaves its loop for good, having finished at most the task it
\* held, and no file is uploaded successfully.
C16_AbortIsPermanent ==
    /\ AbortMonotone
    /\ AbortIsFinal
    /\ AbortWorkersLeave
    /\ AbortNoOtherTask

\* C16 without the bound on what a worker finishes.
C16_WithoutTaskBound == AbortMonotone /\ AbortIsFinal /\ AbortWorkersLeave

\* The kind of the page with index i, and the number of pages of that kind
\* that precede it without a break.
KindOf(i) == IF pages[i] = 0 THEN "clear" ELSE "update"
RECURSIVE StretchPos(_)
StretchPos(i) ==
    IF i = 1 \/ KindOf(i) # KindOf(i - 1) THEN 0 ELSE StretchPos(i - 1) + 1
\* The pages a run starts with when every stretch of k pages of one kind is
\* cut into ceil(k * PAGE_SIZE / MAX_SIZE) runs, all of MAX_SIZE but the last.
RunStarts == {i \in 1..Len(pages) :
                (StretchPos(i) * PAGE_SIZE) % MAX_SIZE = 0}
RunPages(r) == {i \in 1..Len(pages) :
                  /\ (i - 1) * PAGE_SIZE >= r.offset
                  /\ i * PAGE_SIZE <= RunEnd(r)}
Ranges(ts) == [i \in 1..Len(ts) |-> <<TaskFirst(ts[i]), TaskLast(ts[i])>>]

\* C17: a run holds pages of one kind and at most MAX_SIZE of them; a run is
\* followed by a run of the same kind only when its length is MAX_SIZE; the
\* runs of a file start where the stretches of pages of one kind start and
\* at every MAX_SIZE within a stretch.  DATA, ZERO, DATA, ZERO gives tasks
\* of one page at 0 and 2 * PAGE_SIZE; MAX_SIZE + PAGE_SIZE of DATA gives a
\* task of MAX_SIZE at 0 and one of PAGE_SIZE at MAX_SIZE.
C17_MaximalCoalescing ==
    InUpload =>
        /\ \A j \in 1..Len(runs) :
              /\ runs[j].size <= MAX_SIZE
              /\ \A i \in RunPages(runs[j]) : KindOf(i) = runs[j].kind
              /\ (j < Len(runs) /\ runs[j].kind = runs[j + 1].kind) =>
                    runs[j].size = MAX_SIZE
        /\ Flushed =>
              /\ {runs[j].offset : j \in 1..Len(runs)}
                    = {(i - 1) * PAGE_SIZE : i \in RunStarts}
              /\ Len(runs) = Cardinality(RunStarts)
              /\ (Len(pages) = 4 /\ pages[1] # 0 /\ pages[2] = 0
                    /\ pages[3] # 0 /\ pages[4] = 0) =>
                    Ranges(enq) = <<<<0, PAGE_SIZE - 1>>,
                                    <<2 * PAGE_SIZE, 3 * PAGE_SIZE - 1>>>>
              /\ (Len(pages) * PAGE_SIZE = MAX_SIZE + PAGE_SIZE
                    /\ NonZeroPages = Len(pages)) =>
                    Ranges(enq) = <<<<0, MAX_SIZE - 1>>,
                                    <<MAX_SIZE, MAX_SIZE + PAGE_SIZE - 1>>>>

\* C17's case: a file of MAX_SIZE + PAGE_SIZE bytes of DATA was chunked.
C17_Witness ==
    /\ Flushed /\ Len(pages) * PAGE_SIZE = MAX_SIZE + PAGE_SIZE
    /\ NonZeroPages = Len(pages)
    /\ Len(enq) = 2

\* C17's other case: DATA, ZERO, DATA, ZERO was chunked.
C17_WitnessAlternating ==
    /\ Flushed /\ Len(pages) = 4 /\ Len(enq) = 2
    /\ pages[1] # 0 /\ pages[2] = 0 /\ pages[3] # 0 /\ pages[4] = 0

\* The pages of the file at the byte range a task names, in order.
FileBytes(t) ==
    [k \in 1..(TaskLen(t) \div PAGE_SIZE) |->
        pages[TaskFirst(t) \div PAGE_SIZE + k]]
Covering(p) == {i \in 1..Len(enq) : p \in TaskPages(enq[i])}

\* C18: the payload of every task put on the queue is the file's bytes at the
\* range the task names: as long as the range, the pages of the range in
\* order, with nothing of an earlier run; the range is the inclusive interval
\* of a flushed run; once the file is chunked every DATA page lies in exactly
\* one task.
C18_PayloadExact ==
    InUpload =>
        /\ \A i \in 1..Len(enq) :
              /\ Aligned(TaskFirst(enq[i]))
              /\ TaskLast(enq[i]) < Len(pages) * PAGE_SIZE
              /\ Len(enq[i].data) * PAGE_SIZE = TaskLen(enq[i])
              /\ enq[i].data = FileBytes(enq[i])
              /\ \E j \in 1..Len(runs) :
                    /\ runs[j].kind = "update"
                    /\ enq[i].range = <<"bytes", runs[j].offset,
                                        runs[j].offset + runs[j].size - 1>>
        /\ Flushed =>
              \A p \in 1..Len(pages) :
                  pages[p] # 0 => Cardinality(Covering(p)) = 1

\* C18's case: a task was put for a run that follows a run flushed at
\* MAX_SIZE, and the file is chunked.
C18_Witness ==
    /\ Flushed
    /\ \E i \in 1..Len(enq) : \E j \in 1..Len(runs) :
          /\ runs[j].kind = "update" /\ runs[j].size = MAX_SIZE
          /\ TaskFirst(enq[i]) = RunEnd(runs[j])

\* Worker w leaves the retry loop with a write that succeeded.
FinishesWritten(w) ==
    /\ pc[w] = "write" /\ pc'[w] = "loop"
    /\ cur[w][1] \in written' \ written

\* C19: a write that succeeds, after however many failed attempts (0 to
\* MaxAttempts - 1), is acknowledged once and touches neither the abort flag
\* nor the coordinator; a failed attempt that is followed by another changes
\* nothing but the count; while the process runs, the abort flag is raised
\* only by a worker whose task has just failed its MaxAttempts-th attempt
\* in a row.
C19_TransientAbsorbed ==
    [][/\ \A w \in Workers :
             FinishesWritten(w) =>
                /\ unfinished' = unfinished - 1
                /\ cur[w][1] \notin acked
                /\ acked' = acked \cup {cur[w][1]}
                /\ done' = done /\ failed' = failed
                /\ pcMain' = pcMain
       /\ \A w \in Workers :
             (pc[w] = "write" /\ attempts'[w] > attempts[w]) =>
                /\ pc'[w] = "write" /\ cur'[w] = cur[w]
                /\ done' = done /\ failed' = failed
                /\ unfinished' = unfinished /\ acked' = acked
       /\ (~done /\ done' /\ Alive') =>
             \E w \in Workers :
                /\ pc[w] = "write" /\ attempts[w] = MaxAttempts - 1
                /\ cur[w][1] \notin written'
                /\ [task |-> cur[w][1], attempts |-> MaxAttempts]
                      \in failed']_vars

\* C19's case: a task has failed MaxAttempts - 1 times, nothing of it has
\* surfaced, and the attempt that succeeds and is acknowledged can follow.
C19_Witness ==
    /\ InUpload /\ ~done /\ failed = {}
    /\ \E w \in Workers :
          /\ pc[w] = "write" /\ attempts[w] = MaxAttempts - 1
          /\ ENABLED <<WorkerAttempt(w) /\ cur[w][1] \in acked'>>_vars

====
